---------------------------- MODULE Spec2Model ----------------------------
(***************************************************************************)
(* Model of sources/nvidia-migmanager/src/main.rs: one reconciliation pass *)
(* of the NVIDIA MIG manager (parse_args, logger setup, run_gpu_query,     *)
(* analyze_mig_status, set_mig_mode, set_mig_profile, reboot request).     *)
(*                                                                         *)
(* Text is modelled as a sequence of tokens.  Each token stands for a      *)
(* fixed piece of text: "," and " " and "\n" are the single characters,    *)
(* "Enabled", "Disabled", "N/A" and "gpu" are words that contain none of   *)
(* those three characters.                                                 *)
(***************************************************************************)
EXTENDS Integers, Sequences, FiniteSets, TLC

VARIABLES
    pc,               \* position of run()/main()
    args,             \* env::args() after the program name, not yet consumed
    global_args,      \* the Args struct built by parse_args
    stdout,           \* stdout captured by the last successful query command
    modes,            \* Vec<(String, MigState, MigState)> held by run()
    is_mig_capable,   \* local of run(): <<>>, or <<b>> once the first analysis set it
    overall_mig_mode, \* local of run(), set by the first analysis
    last_analysis,    \* what the last analyze_mig_status call logged/returned
    cmds,             \* external commands issued so far, with their outcome
    stderr,           \* messages printed by main() with eprintln!
    exit_status,      \* <<>> while running, <<code>> once the process exited
    fleet             \* the GPUs of the host: what the query command reads

vars == <<pc, args, global_args, stdout, modes, is_mig_capable,
          overall_mig_mode, last_analysis, cmds, stderr, exit_status, fleet>>

----------------------------------------------------------------------------
\* Bounds of the model
MaxArgs == 3
MaxLines == 2
MaxGpus == 2

----------------------------------------------------------------------------
\* enum MigState
Enabled == "Enabled"
Disabled == "Disabled"
Transition == "Transition"
Unknown == "Unknown"
MigState == {Enabled, Disabled, Transition, Unknown}

\* value of a local of run() that has not been assigned yet
Unset == "unset"

NL == "\n"
COMMA == ","
SP == " "

RECURSIVE SeqsUpTo(_, _)
SeqsUpTo(n, S) ==
    IF n = 0 THEN {<<>>}
    ELSE LET shorter == SeqsUpTo(n - 1, S)
         IN  shorter \cup {Append(s, x) : s \in {t \in shorter : Len(t) = n - 1}, x \in S}

Range(s) == {s[i] : i \in 1..Len(s)}

----------------------------------------------------------------------------
\* The fixed command lines
NVIDIA_SMI == "/usr/libexec/nvidia/tesla/bin/nvidia-smi"
QueryCmd == <<NVIDIA_SMI, "--query-gpu=gpu_name,mig.mode.current,mig.mode.pending", "--format=csv,noheader">>
SetMigModeCmd == <<NVIDIA_SMI, "-mig", "1">>
SetMigProfileCmd == <<NVIDIA_SMI, "mig", "-cgi", "9,9", "-C">>
RebootCmd == <<"apiclient", "reboot">>

\* Outcome of Command::output() followed by the status check of command()
CommandOutcomes == {"ok", "ExecutionFailure", "CommandFailure"}

----------------------------------------------------------------------------
\* str::lines(): pieces terminated by "\n"; a last piece without terminator
\* is yielded when it is not empty.
FirstNL(s) ==
    LET hits == {i \in 1..Len(s) : s[i] = NL}
    IN  IF hits = {} THEN 0 ELSE CHOOSE i \in hits : \A j \in hits : i <= j

RECURSIVE Lines(_)
Lines(s) ==
    IF s = <<>> THEN <<>>
    ELSE LET i == FirstNL(s)
         IN  IF i = 0 THEN <<s>>
             ELSE <<SubSeq(s, 1, i - 1)>> \o Lines(SubSeq(s, i + 1, Len(s)))

\* line.split(", "): cut at each leftmost occurrence of comma-space
FirstSep(s) ==
    LET hits == {i \in 1..(Len(s) - 1) : s[i] = COMMA /\ s[i + 1] = SP}
    IN  IF hits = {} THEN 0 ELSE CHOOSE i \in hits : \A j \in hits : i <= j

RECURSIVE Split(_)
Split(s) ==
    LET i == FirstSep(s)
    IN  IF i = 0 THEN <<s>>
        ELSE <<SubSeq(s, 1, i - 1)>> \o Split(SubSeq(s, i + 2, Len(s)))

\* mutant: the field trimmed before the match
ParseMigState_Trim(text) ==
    LET trimmed == SelectSeq(text, LAMBDA t : t # SP)
    IN  IF trimmed = <<"Enabled">> THEN Enabled
        ELSE IF trimmed = <<"Disabled">> THEN Disabled
        ELSE Unknown

\* the match on parts[1] and on parts[2]
ParseMigState(text) ==
    IF text = <<"Enabled">> THEN Enabled
    ELSE IF text = <<"Disabled">> THEN Disabled
    ELSE Unknown

\* mutant: `parts.len() >= 3` in place of `parts.len() == 3`
ParseLine_AtLeast3(line) ==
    LET parts == Split(line)
    IN  IF Len(parts) >= 3
        THEN <<<<parts[1], ParseMigState(parts[2]), ParseMigState(parts[3])>>>>
        ELSE <<>>

\* one iteration of the loop of run_gpu_query: the records a line adds
ParseLine(line) ==
    LET parts == Split(line)
    IN  IF Len(parts) = 3
        THEN <<<<parts[1], ParseMigState(parts[2]), ParseMigState(parts[3])>>>>
        ELSE <<>>

RECURSIVE ParseLines(_)
ParseLines(ls) ==
    IF ls = <<>> THEN <<>>
    ELSE ParseLine(Head(ls)) \o ParseLines(Tail(ls))

\* run_gpu_query on the stdout of a successful command
ParseOutput(output) == ParseLines(Lines(output))

----------------------------------------------------------------------------
\* mutant: `&&` in place of `||`
RECURSIVE IsMigCapable_And(_)
IsMigCapable_And(ms) ==
    IF ms = <<>> THEN FALSE
    ELSE IF Head(ms)[2] # Unknown /\ Head(ms)[3] # Unknown THEN TRUE
    ELSE IsMigCapable_And(Tail(ms))

\* fn is_mig_capable: first record that is not (Unknown, Unknown) returns true
RECURSIVE IsMigCapable(_)
IsMigCapable(ms) ==
    IF ms = <<>> THEN FALSE
    ELSE IF Head(ms)[2] # Unknown \/ Head(ms)[3] # Unknown THEN TRUE
    ELSE IsMigCapable(Tail(ms))

\* the two HashSets filled by the loop of get_mig_mode
RECURSIVE CollectStates(_, _, _)
CollectStates(ms, current_states, pending_states) ==
    IF ms = <<>> THEN <<current_states, pending_states>>
    ELSE CollectStates(Tail(ms),
                       current_states \cup {Head(ms)[2]},
                       pending_states \cup {Head(ms)[3]})

\* mutant: the operands of the Transition row exchanged
GetMigMode_DisablingIsTransition(ms) ==
    LET sets == CollectStates(ms, {}, {})
        current_states == sets[1]
        pending_states == sets[2]
    IN  IF Cardinality(current_states) = 1 /\ Cardinality(pending_states) = 1
        THEN LET current_state == CHOOSE c \in current_states : TRUE
                 pending_state == CHOOSE p \in pending_states : TRUE
             IN  IF current_state = Enabled /\ pending_state = Enabled THEN Enabled
                 ELSE IF current_state = Disabled /\ pending_state = Disabled THEN Disabled
                 ELSE IF current_state = Enabled /\ pending_state = Disabled THEN Transition
                 ELSE Unknown
        ELSE Unknown

\* mutant: the first record decides, the others are not compared with it
GetMigMode_FirstRecord(ms) ==
    IF ms = <<>> THEN Unknown
    ELSE LET current_state == Head(ms)[2]
             pending_state == Head(ms)[3]
         IN  IF current_state = Enabled /\ pending_state = Enabled THEN Enabled
             ELSE IF current_state = Disabled /\ pending_state = Disabled THEN Disabled
             ELSE IF current_state = Disabled /\ pending_state = Enabled THEN Transition
             ELSE Unknown

\* mutant: "every record is Disabled/Disabled" and the like tested with a
\* universal quantifier, which an empty snapshot satisfies
GetMigMode_VacuousAll(ms) ==
    IF \A i \in 1..Len(ms) : ms[i][2] = Enabled /\ ms[i][3] = Enabled THEN Enabled
    ELSE IF \A i \in 1..Len(ms) : ms[i][2] = Disabled /\ ms[i][3] = Disabled THEN Disabled
    ELSE IF \A i \in 1..Len(ms) : ms[i][2] = Disabled /\ ms[i][3] = Enabled THEN Transition
    ELSE Unknown

\* fn get_mig_mode
GetMigMode(ms) ==
    LET sets == CollectStates(ms, {}, {})
        current_states == sets[1]
        pending_states == sets[2]
    IN  IF Cardinality(current_states) = 1 /\ Cardinality(pending_states) = 1
        THEN LET current_state == CHOOSE c \in current_states : TRUE
                 pending_state == CHOOSE p \in pending_states : TRUE
             IN  IF current_state = Enabled /\ pending_state = Enabled THEN Enabled
                 ELSE IF current_state = Disabled /\ pending_state = Disabled THEN Disabled
                 ELSE IF current_state = Disabled /\ pending_state = Enabled THEN Transition
                 ELSE Unknown
        ELSE Unknown

\* fn analyze_mig_status
AnalyzeMigStatusResult(ms) == <<IsMigCapable(ms), GetMigMode(ms)>>

\* mutant: the two inner branches exchanged
SelectAction_Swapped(capable, mode) ==
    IF capable
    THEN IF mode = Disabled THEN "set_mig_profile"
         ELSE IF mode = Enabled THEN "set_mig_mode"
         ELSE "return_ok"
    ELSE "return_ok"

\* mutant: `else` in place of `else if overall_mig_mode == Enabled`
SelectAction_ElseProfile(capable, mode) ==
    IF capable
    THEN IF mode = Disabled THEN "set_mig_mode"
         ELSE "set_mig_profile"
    ELSE "return_ok"

\* mutant: the capability guard dropped, and `else` in place of `else if`
SelectAction_NoGuard(capable, mode) ==
    IF mode = Disabled THEN "set_mig_mode" ELSE "set_mig_profile"

\* the branch of run() on (is_mig_capable, overall_mig_mode): next position
SelectAction(capable, mode) ==
    IF capable
    THEN IF mode = Disabled THEN "set_mig_mode"
         ELSE IF mode = Enabled THEN "set_mig_profile"
         ELSE "return_ok"
    ELSE "return_ok"

----------------------------------------------------------------------------
\* Command-line arguments
ArgTokens == {"--log-level", "-c", "--config-path", "info", "x"}
\* LevelFilter::from_str accepts these names
LevelNames == {"off", "error", "warn", "info", "debug", "trace"}
DEFAULT_CONFIG_PATH == "/etc/bootstrap-commands/bootstrap-commands.toml"
DefaultArgs == [log_level |-> "info", config_path |-> DEFAULT_CONFIG_PATH]

\* mutant: an option without a value keeps the default instead of failing
RECURSIVE ParseArgsLoop_MissingValueOk(_, _)
ParseArgsLoop_MissingValueOk(iter, ga) ==
    IF iter = <<>> THEN [err |-> "none", args |-> ga]
    ELSE LET arg == Head(iter)
             rest == Tail(iter)
         IN  IF arg = "--log-level"
             THEN IF rest = <<>> THEN [err |-> "none", args |-> ga]
                  ELSE IF Head(rest) \notin LevelNames THEN [err |-> "LogLevel", args |-> ga]
                  ELSE ParseArgsLoop_MissingValueOk(Tail(rest), [ga EXCEPT !.log_level = Head(rest)])
             ELSE IF arg \in {"-c", "--config-path"}
             THEN IF rest = <<>> THEN [err |-> "none", args |-> ga]
                  ELSE ParseArgsLoop_MissingValueOk(Tail(rest), [ga EXCEPT !.config_path = Head(rest)])
             ELSE ParseArgsLoop_MissingValueOk(rest, ga)

\* fn parse_args: the while loop over the remaining arguments
RECURSIVE ParseArgsLoop(_, _)
ParseArgsLoop(iter, ga) ==
    IF iter = <<>> THEN [err |-> "none", args |-> ga]
    ELSE LET arg == Head(iter)
             rest == Tail(iter)
         IN  IF arg = "--log-level"
             THEN IF rest = <<>> THEN [err |-> "Usage", args |-> ga]
                  ELSE IF Head(rest) \notin LevelNames THEN [err |-> "LogLevel", args |-> ga]
                  ELSE ParseArgsLoop(Tail(rest), [ga EXCEPT !.log_level = Head(rest)])
             ELSE IF arg \in {"-c", "--config-path"}
             THEN IF rest = <<>> THEN [err |-> "Usage", args |-> ga]
                  ELSE ParseArgsLoop(Tail(rest), [ga EXCEPT !.config_path = Head(rest)])
             ELSE ParseArgsLoop(rest, ga)

ParseArgsResult(argv) == ParseArgsLoop(argv, DefaultArgs)

----------------------------------------------------------------------------
\* What the query command can print
GPU == "gpu"
NA == "N/A"
SEP == <<COMMA, SP>>
ModeWords == {<<"Enabled">>, <<"Disabled">>, <<NA>>}

\* the documented format: gpu_name, mig.mode.current, mig.mode.pending
WellFormedLines == {<<GPU>> \o SEP \o c \o SEP \o p : c \in ModeWords, p \in ModeWords}

BlankLine == <<>>
CommaOnlyLine == <<GPU, COMMA, "Enabled", COMMA, "Enabled">>

OtherLines ==
    { BlankLine,
      CommaOnlyLine,
      <<GPU>> \o SEP \o <<"Enabled">>,                               \* two fields
      <<GPU>> \o SEP \o <<"Enabled">> \o SEP \o <<"Enabled">> \o SEP \o <<"Enabled">>,
      <<GPU, COMMA, SP, SP, "Enabled", COMMA, SP, "Enabled">>,       \* leading space in a field
      <<GPU, COMMA, SP, "Disabled", SP, COMMA, SP, "Disabled">> }    \* trailing space in a field

LineSet == WellFormedLines \cup OtherLines

RECURSIVE JoinLines(_)
JoinLines(ls) ==
    IF ls = <<>> THEN <<>>
    ELSE Head(ls) \o <<NL>> \o JoinLines(Tail(ls))

\* outputs the reader is exercised on: every line terminated by "\n", or the
\* last one left unterminated
Stdouts ==
    LET texts == {JoinLines(ls) : ls \in SeqsUpTo(MaxLines, LineSet)}
    IN  texts \cup {SubSeq(t, 1, Len(t) - 1) : t \in {u \in texts : u # <<>>}}

\* outputs the driver is exercised on
DriverStdouts ==
    {JoinLines(ls) : ls \in SeqsUpTo(MaxLines, WellFormedLines \cup {BlankLine, CommaOnlyLine})}

\* the hardware left out: the query command may print any output
NoFleet == <<>>

----------------------------------------------------------------------------
\* State machine of one pass

Init ==
    /\ pc = "parse_args"
    /\ args \in SeqsUpTo(MaxArgs, ArgTokens)
    /\ global_args = DefaultArgs
    /\ stdout = <<>>
    /\ modes = <<>>
    /\ is_mig_capable = <<>>
    /\ overall_mig_mode = Unset
    /\ last_analysis = <<>>
    /\ cmds = <<>>
    /\ stderr = <<>>
    /\ exit_status = <<>>
    /\ fleet = NoFleet

\* an Err propagated by `?` out of run() into main(): eprintln!, exit(1)
ExitWithError(kind) ==
    /\ pc' = "exited"
    /\ stderr' = Append(stderr, kind)
    /\ exit_status' = <<1>>

\* mutant: a pass that took no action analyzes again instead of returning
ReturnOk_Loop ==
    /\ pc = "return_ok"
    /\ IF Len(cmds) = 1
       THEN pc' = "analyze1" /\ UNCHANGED exit_status
       ELSE pc' = "exited" /\ exit_status' = <<0>>
    /\ UNCHANGED <<args, global_args, stdout, modes, is_mig_capable,
                   overall_mig_mode, last_analysis, cmds, stderr, fleet>>

\* run() returned Ok(()): main() returns, exit code 0
ReturnOk ==
    /\ pc = "return_ok"
    /\ pc' = "exited"
    /\ exit_status' = <<0>>
    /\ UNCHANGED <<args, global_args, stdout, modes, is_mig_capable,
                   overall_mig_mode, last_analysis, cmds, stderr, fleet>>

ParseArgs ==
    /\ pc = "parse_args"
    /\ LET r == ParseArgsResult(args)
       IN  /\ args' = <<>>
           /\ global_args' = r.args
           /\ IF r.err = "none"
              THEN pc' = "init_logger" /\ UNCHANGED <<stderr, exit_status>>
              ELSE ExitWithError(r.err)
    /\ UNCHANGED <<stdout, modes, is_mig_capable, overall_mig_mode,
                   last_analysis, cmds, fleet>>

\* SimpleLogger::init: Err when a global logger is already installed
InitLogger ==
    /\ pc = "init_logger"
    /\ \E ok \in BOOLEAN :
          IF ok THEN pc' = "query1" /\ UNCHANGED <<stderr, exit_status>>
          ELSE ExitWithError("Logger")
    /\ UNCHANGED <<args, global_args, stdout, modes, is_mig_capable,
                   overall_mig_mode, last_analysis, cmds, fleet>>

\* mutant: the Result of command() dropped instead of propagated with `?`
RunCommand_IgnoreError(at, cmd, next) ==
    /\ pc = at
    /\ \E outcome \in CommandOutcomes :
          cmds' = Append(cmds, [cmd |-> cmd, outcome |-> outcome])
    /\ pc' = next
    /\ UNCHANGED <<args, global_args, stdout, modes, is_mig_capable,
                   overall_mig_mode, last_analysis, stderr, exit_status>>

\* mutant: a failed command is run a second time
RunCommand_RetryOnce(at, cmd, next) ==
    /\ pc = at
    /\ \E outcome \in CommandOutcomes :
          /\ cmds' = Append(cmds, [cmd |-> cmd, outcome |-> outcome])
          /\ IF outcome = "ok"
             THEN pc' = next /\ UNCHANGED <<stderr, exit_status>>
             ELSE IF \A i \in 1..Len(cmds) : cmds[i].cmd # cmd
             THEN pc' = at /\ UNCHANGED <<stderr, exit_status>>
             ELSE ExitWithError(outcome)
    /\ UNCHANGED <<args, global_args, stdout, modes, is_mig_capable,
                   overall_mig_mode, last_analysis>>

\* command(bin, args) for a command whose stdout is not used
RunCommand(at, cmd, next) ==
    /\ pc = at
    /\ \E outcome \in CommandOutcomes :
          /\ cmds' = Append(cmds, [cmd |-> cmd, outcome |-> outcome])
          /\ IF outcome = "ok"
             THEN pc' = next /\ UNCHANGED <<stderr, exit_status>>
             ELSE ExitWithError(outcome)
    /\ UNCHANGED <<args, global_args, stdout, modes, is_mig_capable,
                   overall_mig_mode, last_analysis>>

\* what run_gpu_query returns on each stdout of a set
Readings(outputs) ==
    {[stdout |-> output, modes |-> ParseOutput(output)] : output \in outputs}

DriverReadings == Readings(DriverStdouts)
ReaderReadings == Readings(Stdouts)

\* run_gpu_query(): the query command, then the parse of its stdout
RunGpuQuery(at, next, readings) ==
    /\ pc = at
    /\ \/ \E reading \in readings :
             /\ cmds' = Append(cmds, [cmd |-> QueryCmd, outcome |-> "ok"])
             /\ stdout' = reading.stdout
             /\ modes' = reading.modes
             /\ pc' = next
             /\ UNCHANGED <<stderr, exit_status>>
       \/ \E outcome \in CommandOutcomes \ {"ok"} :
             /\ cmds' = Append(cmds, [cmd |-> QueryCmd, outcome |-> outcome])
             /\ ExitWithError(outcome)
             /\ UNCHANGED <<stdout, modes>>
    /\ UNCHANGED <<args, global_args, is_mig_capable, overall_mig_mode,
                   last_analysis>>

FirstQuery == RunGpuQuery("query1", "analyze1", DriverReadings) /\ UNCHANGED fleet

\* let (is_mig_capable, overall_mig_mode) = analyze_mig_status(&modes)?; and
\* the branch that follows
FirstAnalysis ==
    /\ pc = "analyze1"
    /\ LET r == AnalyzeMigStatusResult(modes)
       IN  /\ is_mig_capable' = <<r[1]>>
           /\ overall_mig_mode' = r[2]
           /\ last_analysis' = r
           /\ pc' = SelectAction(r[1], r[2])
    /\ UNCHANGED <<args, global_args, stdout, modes, cmds, stderr, exit_status,
                   fleet>>

\* mutant: the re-query and re-analysis left out
SetMigMode_NoRequery == RunCommand("set_mig_mode", SetMigModeCmd, "reboot") /\ UNCHANGED fleet

SetMigMode == RunCommand("set_mig_mode", SetMigModeCmd, "query2") /\ UNCHANGED fleet

SecondQuery == RunGpuQuery("query2", "analyze2", DriverReadings) /\ UNCHANGED fleet

\* mutant: the refreshed analysis used as a gate of the reboot request
SecondAnalysis_Gate ==
    /\ pc = "analyze2"
    /\ last_analysis' = AnalyzeMigStatusResult(modes)
    /\ pc' = IF AnalyzeMigStatusResult(modes)[2] = Transition
             THEN "reboot" ELSE "return_ok"
    /\ UNCHANGED <<args, global_args, stdout, modes, is_mig_capable,
                   overall_mig_mode, cmds, stderr, exit_status, fleet>>

\* let _ = analyze_mig_status(&modes)?;
SecondAnalysis ==
    /\ pc = "analyze2"
    /\ last_analysis' = AnalyzeMigStatusResult(modes)
    /\ pc' = "reboot"
    /\ UNCHANGED <<args, global_args, stdout, modes, is_mig_capable,
                   overall_mig_mode, cmds, stderr, exit_status, fleet>>

Reboot == RunCommand("reboot", RebootCmd, "return_ok") /\ UNCHANGED fleet

\* mutant: a reboot requested after the profile too
SetMigProfile_ThenReboot ==
    RunCommand("set_mig_profile", SetMigProfileCmd, "reboot") /\ UNCHANGED fleet

SetMigProfile ==
    RunCommand("set_mig_profile", SetMigProfileCmd, "return_ok") /\ UNCHANGED fleet

Next ==
    \/ ParseArgs
    \/ InitLogger
    \/ FirstQuery
    \/ FirstAnalysis
    \/ SetMigMode
    \/ SecondQuery
    \/ SecondAnalysis
    \/ Reboot
    \/ SetMigProfile
    \/ ReturnOk

Spec == Init /\ [][Next]_vars

\* The pass when every step it is at is eventually taken: main() is one
\* thread of straight-line code and every external command returns
SpecFair == Init /\ [][Next]_vars /\ WF_vars(Next)

----------------------------------------------------------------------------
\* The reader alone: run_gpu_query applied to every output of Stdouts

InitReader ==
    /\ pc = "query1"
    /\ args = <<>>
    /\ global_args = DefaultArgs
    /\ stdout = <<>>
    /\ modes = <<>>
    /\ is_mig_capable = <<>>
    /\ overall_mig_mode = Unset
    /\ last_analysis = <<>>
    /\ cmds = <<>>
    /\ stderr = <<>>
    /\ exit_status = <<>>
    /\ fleet = NoFleet

ReaderQuery == RunGpuQuery("query1", "analyze1", ReaderReadings) /\ UNCHANGED fleet

NextReader == ReaderQuery \/ FirstAnalysis

SpecReader == InitReader /\ [][NextReader]_vars

----------------------------------------------------------------------------
\* The analyzer alone: analyze_mig_status applied to every snapshot of at
\* most MaxGpus records over the whole of MigState

GpuNames == {<<GPU>>, <<GPU, "1">>}
AllRecords == {<<n, c, p>> : n \in GpuNames, c \in MigState, p \in MigState}
Snapshots == SeqsUpTo(MaxGpus, AllRecords)

InitAnalyzer ==
    /\ pc = "analyze1"
    /\ args = <<>>
    /\ global_args = DefaultArgs
    /\ stdout = <<>>
    /\ modes \in Snapshots
    /\ is_mig_capable = <<>>
    /\ overall_mig_mode = Unset
    /\ last_analysis = <<>>
    /\ cmds = <<[cmd |-> QueryCmd, outcome |-> "ok"]>>
    /\ stderr = <<>>
    /\ exit_status = <<>>
    /\ fleet = NoFleet

NextAnalyzer == FirstAnalysis

SpecAnalyzer == InitAnalyzer /\ [][NextAnalyzer]_vars

----------------------------------------------------------------------------
\* Repeated passes over GPUs whose mode persists: an external scheduler
\* starts the program again after each exit; the query prints one line per
\* GPU; a successful enable-MIG command sets the pending mode of every GPU
\* to Enabled (the log at the end of main.rs); the reboot a successful
\* reboot request leads to makes the current mode the pending one.

HomogeneousFleets ==
    {[i \in 1..n |-> [current |-> c, pending |-> p]] :
        n \in 1..MaxGpus, c \in ModeWords, p \in ModeWords}

GpuLine(gpu) == <<GPU>> \o SEP \o gpu.current \o SEP \o gpu.pending
FleetOutput(f) == JoinLines([i \in 1..Len(f) |-> GpuLine(f[i])])

InitFleet ==
    /\ pc = "parse_args"
    /\ args = <<>>
    /\ global_args = DefaultArgs
    /\ stdout = <<>>
    /\ modes = <<>>
    /\ is_mig_capable = <<>>
    /\ overall_mig_mode = Unset
    /\ last_analysis = <<>>
    /\ cmds = <<>>
    /\ stderr = <<>>
    /\ exit_status = <<>>
    /\ fleet \in HomogeneousFleets

RebootRequested ==
    \E i \in 1..Len(cmds) : cmds[i] = [cmd |-> RebootCmd, outcome |-> "ok"]

\* the scheduler runs the program again, after the reboot if one was
\* requested
StartPass ==
    /\ pc = "exited"
    /\ pc' = "parse_args"
    /\ args' = <<>>
    /\ global_args' = DefaultArgs
    /\ stdout' = <<>>
    /\ modes' = <<>>
    /\ is_mig_capable' = <<>>
    /\ overall_mig_mode' = Unset
    /\ last_analysis' = <<>>
    /\ cmds' = <<>>
    /\ stderr' = <<>>
    /\ exit_status' = <<>>
    /\ fleet' = IF RebootRequested
                THEN [i \in 1..Len(fleet) |-> [fleet[i] EXCEPT !.current = fleet[i].pending]]
                ELSE fleet

\* what run_gpu_query returns on the output the tool prints for each fleet
FleetReadings ==
    [f \in HomogeneousFleets |->
        [stdout |-> FleetOutput(f), modes |-> ParseOutput(FleetOutput(f))]]

FleetFirstQuery ==
    RunGpuQuery("query1", "analyze1", {FleetReadings[fleet]}) /\ UNCHANGED fleet

FleetSetMigMode ==
    /\ RunCommand("set_mig_mode", SetMigModeCmd, "query2")
    /\ fleet' = IF pc' = "query2"
                THEN [i \in 1..Len(fleet) |-> [fleet[i] EXCEPT !.pending = <<"Enabled">>]]
                ELSE fleet

FleetSecondQuery ==
    RunGpuQuery("query2", "analyze2", {FleetReadings[fleet]}) /\ UNCHANGED fleet

FleetReboot == RunCommand("reboot", RebootCmd, "return_ok") /\ UNCHANGED fleet

FleetSetMigProfile ==
    RunCommand("set_mig_profile", SetMigProfileCmd, "return_ok") /\ UNCHANGED fleet

NextFleet ==
    \/ StartPass
    \/ ParseArgs
    \/ InitLogger
    \/ FleetFirstQuery
    \/ FirstAnalysis
    \/ FleetSetMigMode
    \/ FleetSecondQuery
    \/ SecondAnalysis
    \/ FleetReboot
    \/ FleetSetMigProfile
    \/ ReturnOk

SpecFleet == InitFleet /\ [][NextFleet]_vars

\* every step that can be taken is taken, and no command (nor the logger
\* setup) fails for ever: where it is tried again and again, it succeeds
SpecFleetFair ==
    /\ InitFleet /\ [][NextFleet]_vars
    /\ WF_vars(NextFleet)
    /\ SF_vars(InitLogger /\ pc' = "query1")
    /\ SF_vars(FleetFirstQuery /\ pc' = "analyze1")
    /\ SF_vars(FleetSetMigMode /\ pc' = "query2")
    /\ SF_vars(FleetSecondQuery /\ pc' = "analyze2")
    /\ SF_vars(FleetReboot /\ pc' = "return_ok")
    /\ SF_vars(FleetSetMigProfile /\ pc' = "return_ok")


----------------------------------------------------------------------------
\* Vocabulary of the properties

Issued == [i \in 1..Len(cmds) |-> cmds[i].cmd]
AllOk == \A i \in 1..Len(cmds) : cmds[i].outcome = "ok"
IsPrefix(a, b) == Len(a) <= Len(b) /\ a = SubSeq(b, 1, Len(a))
Exited == pc = "exited"
FirstQueryOk == Len(cmds) >= 1 /\ cmds[1] = [cmd |-> QueryCmd, outcome |-> "ok"]
\* the first analysis has run: the two locals of run() are assigned
Analyzed == overall_mig_mode # Unset

EnableSequence == <<QueryCmd, SetMigModeCmd, QueryCmd, RebootCmd>>
ProfileSequence == <<QueryCmd, SetMigProfileCmd>>

\* C1: when the first snapshot analyzes to (capable, Disabled) and no command
\* fails, the commands issued are query, enable-MIG, query, reboot in that
\* order (at every moment a prefix of it, at exit the whole of it) and the
\* exit code is 0.
Thm_C1 ==
    (Analyzed /\ FirstQueryOk /\ is_mig_capable = <<TRUE>>
        /\ overall_mig_mode = Disabled /\ AllOk)
    => /\ IsPrefix(Issued, EnableSequence)
       /\ Exited => (Issued = EnableSequence /\ exit_status = <<0>>)

Wit_C1 ==
    /\ Exited /\ Analyzed /\ is_mig_capable = <<TRUE>> /\ overall_mig_mode = Disabled
    /\ AllOk /\ Issued = EnableSequence /\ exit_status = <<0>>

\* C2: when the first snapshot analyzes to (capable, Enabled), the pass issues
\* the query and then the partition-profile command and nothing else, and
\* exits 0 when the profile command succeeds.
Thm_C2 ==
    (Analyzed /\ FirstQueryOk /\ is_mig_capable = <<TRUE>> /\ overall_mig_mode = Enabled)
    => /\ IsPrefix(Issued, ProfileSequence)
       /\ Exited => /\ Issued = ProfileSequence
                    /\ cmds[2].outcome = "ok" => exit_status = <<0>>

Wit_C2 ==
    /\ Exited /\ Analyzed /\ is_mig_capable = <<TRUE>> /\ overall_mig_mode = Enabled
    /\ Issued = ProfileSequence /\ AllOk /\ exit_status = <<0>>

\* C3: when the first snapshot analyzes to capable with mode Transition or
\* Unknown, the one query is the only command of the pass and the exit code
\* is 0.
Thm_C3 ==
    (Analyzed /\ is_mig_capable = <<TRUE>> /\ overall_mig_mode \in {Transition, Unknown})
    => /\ cmds = <<[cmd |-> QueryCmd, outcome |-> "ok"]>>
       /\ pc \in {"return_ok", "exited"}
       /\ Exited => exit_status = <<0>>

Wit_C3 ==
    /\ Exited /\ Analyzed /\ is_mig_capable = <<TRUE>> /\ overall_mig_mode = Transition
    /\ Len(cmds) = 1 /\ exit_status = <<0>>

AllUnknown(ms) == \A i \in 1..Len(ms) : ms[i][2] = Unknown /\ ms[i][3] = Unknown

\* C4: when the first snapshot has only (Unknown, Unknown) records or is
\* empty, it analyzes to not capable, the one query is the only command of
\* the pass and the exit code is 0.
Thm_C4 ==
    /\ (Analyzed /\ Len(cmds) = 1 /\ AllUnknown(modes)) => is_mig_capable = <<FALSE>>
    /\ (Analyzed /\ is_mig_capable = <<FALSE>>)
       => /\ cmds = <<[cmd |-> QueryCmd, outcome |-> "ok"]>>
          /\ pc \in {"return_ok", "exited"}
          /\ Exited => exit_status = <<0>>

Wit_C4 ==
    /\ Exited /\ Analyzed /\ is_mig_capable = <<FALSE>>
    /\ Len(modes) = 2 /\ AllUnknown(modes)
    /\ Len(cmds) = 1 /\ exit_status = <<0>>

\* C8: a failed command is the last command of the pass and the pass then
\* exits with code 1; a pass that exits with code 0 had no failed step; a
\* failed first query is the only command of the pass.
Thm_C8 ==
    /\ \A i \in 1..Len(cmds) :
          cmds[i].outcome # "ok"
          => (i = Len(cmds) /\ Exited /\ exit_status = <<1>>)
    /\ (Exited /\ exit_status = <<0>>) => (AllOk /\ stderr = <<>>)
    /\ (Len(cmds) >= 1 /\ cmds[1].outcome # "ok") => Len(cmds) = 1

Wit_C8 ==
    /\ Exited /\ exit_status = <<1>>
    /\ Len(cmds) = 3 /\ cmds[3].cmd = QueryCmd /\ cmds[3].outcome = "CommandFailure"

CurrentValues(ms) == {ms[i][2] : i \in 1..Len(ms)}
PendingValues(ms) == {ms[i][3] : i \in 1..Len(ms)}

\* C5: the aggregate mode is Enabled iff the distinct current values are
\* {Enabled} and the distinct pending values are {Enabled}; Disabled iff both
\* are {Disabled}; Transition iff they are {Disabled} and {Enabled}; and
\* Unknown in every other case.
Thm_C5 ==
    Analyzed =>
        LET cs == CurrentValues(modes)
            ps == PendingValues(modes)
        IN  /\ overall_mig_mode = Enabled <=> (cs = {Enabled} /\ ps = {Enabled})
            /\ overall_mig_mode = Disabled <=> (cs = {Disabled} /\ ps = {Disabled})
            /\ overall_mig_mode = Transition <=> (cs = {Disabled} /\ ps = {Enabled})
            /\ overall_mig_mode = Unknown
               <=> ~ \/ (cs = {Enabled} /\ ps = {Enabled})
                     \/ (cs = {Disabled} /\ ps = {Disabled})
                     \/ (cs = {Disabled} /\ ps = {Enabled})

Wit_C5 ==
    /\ Analyzed /\ Len(modes) = 2
    /\ CurrentValues(modes) = {Enabled} /\ PendingValues(modes) = {Disabled}
    /\ overall_mig_mode = Unknown

\* C6: the snapshot is reported capable iff some record has a current or a
\* pending value other than Unknown; the empty snapshot is not capable.
Thm_C6 ==
    Analyzed =>
        /\ is_mig_capable = <<TRUE>>
           <=> \E i \in 1..Len(modes) : modes[i][2] # Unknown \/ modes[i][3] # Unknown
        /\ modes = <<>> => is_mig_capable = <<FALSE>>

Wit_C6 ==
    /\ Analyzed /\ is_mig_capable = <<TRUE>> /\ Len(modes) = 2
    /\ modes[1][2] = Unknown /\ modes[1][3] = Unknown
    /\ modes[2][2] = Unknown /\ modes[2][3] # Unknown

\* snapshots made of the records of ms, one record longer at most
Rearrangements(ms) ==
    {o \in SeqsUpTo(Len(ms) + 1, Range(ms)) : Range(o) = Range(ms)}

\* snapshots that give other names to the GPUs of ms
Renamings(ms) ==
    {[i \in 1..Len(ms) |-> <<names[i], ms[i][2], ms[i][3]>>] :
        names \in [1..Len(ms) -> GpuNames]}

\* snapshots of one GPU name with the same distinct current values and the
\* same distinct pending values as ms
SameValueSets(ms) ==
    {o \in SeqsUpTo(MaxGpus, {<<<<GPU>>, c, p>> : c \in CurrentValues(ms),
                                                 p \in PendingValues(ms)}) :
        CurrentValues(o) = CurrentValues(ms) /\ PendingValues(o) = PendingValues(ms)}

\* C7: the aggregate mode of a snapshot is also the aggregate mode of every
\* permutation of it, of every snapshot that repeats or drops repeated
\* records of it, of every renaming of its GPUs, and of every snapshot with
\* the same distinct current values and the same distinct pending values.
Thm_C7 ==
    Analyzed =>
        /\ \A o \in Rearrangements(modes) : GetMigMode(o) = overall_mig_mode
        /\ \A o \in Renamings(modes) : GetMigMode(o) = overall_mig_mode
        /\ \A o \in SameValueSets(modes) : GetMigMode(o) = overall_mig_mode

Wit_C7 ==
    /\ Analyzed /\ Len(modes) = 2 /\ modes[1][1] # modes[2][1]
    /\ modes[1][2] = Disabled /\ modes[2][2] = Disabled
    /\ modes[1][3] = Enabled /\ modes[2][3] = Enabled
    /\ overall_mig_mode = Transition

----------------------------------------------------------------------------
\* The text of an output, described by positions

RECURSIVE SortedSeq(_)
SortedSeq(S) ==
    IF S = {} THEN <<>>
    ELSE LET m == CHOOSE x \in S : \A y \in S : x <= y
         IN  <<m>> \o SortedSeq(S \ {m})

\* a line starts at the first position and after every "\n"
LineStarts(s) == {st \in 1..Len(s) : st = 1 \/ s[st - 1] = NL}
LineEnd(s, st) ==
    CHOOSE e \in (st - 1)..Len(s) :
        /\ e = Len(s) \/ s[e + 1] = NL
        /\ \A j \in st..e : s[j] # NL
TextLines(s) ==
    LET starts == SortedSeq(LineStarts(s))
    IN  [k \in 1..Len(starts) |-> SubSeq(s, starts[k], LineEnd(s, starts[k]))]

CommaPositions(line) == {i \in 1..Len(line) : line[i] = COMMA}
SepPositions(line) ==
    {i \in 1..(Len(line) - 1) : line[i] = COMMA /\ line[i + 1] = SP}

\* the fields of a line cut at the separators of `width` characters found at
\* `positions`
FieldsAt(line, positions, width) ==
    LET p == SortedSeq(positions)
    IN  [j \in 1..(Len(p) + 1) |->
            SubSeq(line,
                   IF j = 1 THEN 1 ELSE p[j - 1] + width,
                   IF j = Len(p) + 1 THEN Len(line) ELSE p[j] - 1)]

\* the lines of three fields, in order of appearance: separated by commas,
\* and separated by comma-space
CommaRecordLines(s) ==
    LET L == TextLines(s)
    IN  SortedSeq({k \in 1..Len(L) : Cardinality(CommaPositions(L[k])) = 2})
RecordLines(s) ==
    LET L == TextLines(s)
    IN  SortedSeq({k \in 1..Len(L) : Cardinality(SepPositions(L[k])) = 2})

\* the output with every line that is not a record line removed
RecordLinesOnly(s) ==
    LET L == TextLines(s)
        V == RecordLines(s)
    IN  JoinLines([k \in 1..Len(V) |-> L[V[k]]])

\* the reader has returned the snapshot of stdout
ReaderDone == Len(cmds) = 1 /\ FirstQueryOk

\* C9 as stated: one record for each line that has exactly three fields
\* separated by commas, in the order of the lines.
Orig_C9 ==
    ReaderDone =>
        LET L == TextLines(stdout)
            V == CommaRecordLines(stdout)
        IN  /\ Len(modes) = Len(V)
            /\ \A k \in 1..Len(V) :
                  k <= Len(modes)
                  => modes[k][1] = FieldsAt(L[V[k]], CommaPositions(L[V[k]]), 1)[1]

\* C9 (amended): the reader returns one record for each line that the
\* two-character separator comma-space cuts into exactly three fields, in
\* the order of the lines, and none for any other line; each record is the
\* one its line yields alone, and removing the other lines changes neither
\* the records nor the capability and aggregate mode computed from them.
Thm_C9 ==
    ReaderDone =>
        LET L == TextLines(stdout)
            V == RecordLines(stdout)
        IN  /\ Len(modes) = Len(V)
            /\ \A k \in 1..Len(V) :
                  k <= Len(modes)
                  => /\ modes[k][1] = FieldsAt(L[V[k]], SepPositions(L[V[k]]), 2)[1]
                     /\ <<modes[k]>> = ParseOutput(L[V[k]] \o <<NL>>)
            /\ modes = ParseOutput(RecordLinesOnly(stdout))
            /\ Analyzed
               => <<is_mig_capable[1], overall_mig_mode>>
                    = AnalyzeMigStatusResult(ParseOutput(RecordLinesOnly(stdout)))

Wit_C9 ==
    /\ ReaderDone /\ Analyzed
    /\ Len(TextLines(stdout)) = 2
    /\ RecordLines(stdout) = <<2>>
    /\ Len(modes) = 1 /\ overall_mig_mode = Disabled

StateMatches(state, text) ==
    /\ state = Enabled <=> text = <<"Enabled">>
    /\ state = Disabled <=> text = <<"Disabled">>
    /\ state = Unknown <=> text \notin {<<"Enabled">>, <<"Disabled">>}

\* C10: in every record of the reader, current (pending) is Enabled iff the
\* second (third) field of its line is exactly "Enabled", Disabled iff it is
\* exactly "Disabled", Unknown for any other text; it is never Transition.
Thm_C10 ==
    ReaderDone =>
        LET L == TextLines(stdout)
            V == RecordLines(stdout)
        IN  \A k \in 1..Len(modes) :
               /\ modes[k][2] # Transition /\ modes[k][3] # Transition
               /\ k <= Len(V)
                  => LET f == FieldsAt(L[V[k]], SepPositions(L[V[k]]), 2)
                     IN  /\ StateMatches(modes[k][2], f[2])
                         /\ StateMatches(modes[k][3], f[3])

Wit_C10 ==
    /\ ReaderDone
    /\ \E k \in 1..Len(modes) :
          /\ k <= Len(RecordLines(stdout))
          /\ LET line == TextLines(stdout)[RecordLines(stdout)[k]]
                 f == FieldsAt(line, SepPositions(line), 2)
             IN  /\ f[2] = <<SP, "Enabled">> /\ modes[k][2] = Unknown
                 /\ f[3] = <<"Enabled">> /\ modes[k][3] = Enabled

----------------------------------------------------------------------------
Ok(cmd) == [cmd |-> cmd, outcome |-> "ok"]
Count(cmd) == Cardinality({i \in 1..Len(cmds) : cmds[i].cmd = cmd})

\* C11 as stated: in every terminated pass in which the enable-MIG command
\* succeeded, the reboot request has been issued.
Orig_C11 ==
    (Exited /\ \E i \in 1..Len(cmds) : cmds[i] = Ok(SetMigModeCmd))
    => \E j \in 1..Len(cmds) : cmds[j].cmd = RebootCmd

\* C13: once the second query has succeeded, the commands issued and the
\* exit code are a function of the outcome of the reboot request alone,
\* whatever the second snapshot holds: the reboot request is the next and
\* last command, and the exit code is 0 iff it succeeds.
Thm_C13 ==
    (Len(cmds) >= 3 /\ cmds[3] = Ok(QueryCmd))
    => /\ IsPrefix(Issued, EnableSequence)
       /\ pc \in {"analyze2", "reboot", "return_ok", "exited"}
       /\ pc \in {"return_ok", "exited"} => Issued = EnableSequence
       /\ Exited => exit_status = (IF cmds[4].outcome = "ok" THEN <<0>> ELSE <<1>>)
       /\ is_mig_capable = <<TRUE>> /\ overall_mig_mode = Disabled

\* the reboot is requested after a second snapshot that is not even capable
Wit_C13 ==
    /\ Exited /\ Issued = EnableSequence /\ AllOk /\ exit_status = <<0>>
    /\ last_analysis = <<FALSE, Unknown>> /\ Len(modes) = 1

\* C15: in a pass the enable-MIG command, the profile command and the reboot
\* request are each invoked at most once and the query at most twice; a
\* second query comes only directly after a successful enable-MIG command;
\* a failed command is not followed by any command.
Thm_C15 ==
    /\ Count(SetMigModeCmd) <= 1
    /\ Count(SetMigProfileCmd) <= 1
    /\ Count(RebootCmd) <= 1
    /\ Count(QueryCmd) <= 2
    /\ \A i \in 2..Len(cmds) :
          cmds[i].cmd = QueryCmd => cmds[i - 1] = Ok(SetMigModeCmd)
    /\ \A i \in 1..Len(cmds) : cmds[i].outcome # "ok" => i = Len(cmds)

Wit_C15 ==
    /\ Exited /\ Count(QueryCmd) = 2 /\ Count(SetMigModeCmd) = 1
    /\ Count(RebootCmd) = 1 /\ cmds[4].outcome = "ExecutionFailure"

\* what the branch of run() would select from the aggregate mode alone
SelectByMode(mode) ==
    IF mode = Disabled THEN "set_mig_mode"
    ELSE IF mode = Enabled THEN "set_mig_profile"
    ELSE "return_ok"

\* C17: a snapshot whose aggregate mode is Enabled, Disabled or Transition
\* is capable (one that is not capable aggregates to Unknown), so the
\* position selected is the one the aggregate mode alone selects.
Thm_C17 ==
    Analyzed =>
        /\ overall_mig_mode \in {Enabled, Disabled, Transition} => is_mig_capable = <<TRUE>>
        /\ is_mig_capable = <<FALSE>> => overall_mig_mode = Unknown
        /\ pc = SelectByMode(overall_mig_mode)

Wit_C17 ==
    /\ Analyzed /\ Len(modes) = 2
    /\ overall_mig_mode = Disabled /\ is_mig_capable = <<TRUE>>
    /\ pc = "set_mig_mode"

\* C18: a reboot request is the fourth command of a pass, after a
\* successful first query whose snapshot analyzed to (capable, Disabled), a
\* successful enable-MIG command and a successful second query.
Thm_C18 ==
    \A i \in 1..Len(cmds) :
        cmds[i].cmd = RebootCmd
        => /\ i = 4
           /\ SubSeq(cmds, 1, 3) = <<Ok(QueryCmd), Ok(SetMigModeCmd), Ok(QueryCmd)>>
           /\ is_mig_capable = <<TRUE>>
           /\ overall_mig_mode = Disabled

Wit_C18 ==
    /\ Len(cmds) = 4 /\ cmds[4].cmd = RebootCmd
    /\ is_mig_capable = <<TRUE>> /\ overall_mig_mode = Disabled

\* C16: when every command invocation returns, the pass reaches the
\* terminal state (exit code 0 or 1) and stays there, and no command is
\* issued once it has exited.
Thm_C16 ==
    /\ <>[](Exited /\ exit_status \in {<<0>>, <<1>>})
    /\ [][Exited => (Exited' /\ cmds' = cmds /\ exit_status' = exit_status)]_vars

Wit_C16 ==
    /\ Exited /\ exit_status = <<1>> /\ Len(cmds) = 4

----------------------------------------------------------------------------
ValueOptions == {"--log-level", "-c", "--config-path"}

\* argument i is read as an option, not as the value of the option before it
RECURSIVE IsOptionPosition(_, _)
IsOptionPosition(a, i) ==
    IF i = 1 THEN TRUE
    ELSE \/ IsOptionPosition(a, i - 1) /\ a[i - 1] \notin ValueOptions
         \/ i >= 3 /\ IsOptionPosition(a, i - 2) /\ a[i - 2] \in ValueOptions

\* an option that takes a value is the last argument, or --log-level is
\* followed by something that is not a level
ArgsRejected(a) ==
    \E i \in 1..Len(a) :
        /\ IsOptionPosition(a, i)
        /\ \/ a[i] \in ValueOptions /\ i = Len(a)
           \/ a[i] = "--log-level" /\ i < Len(a) /\ a[i + 1] \notin LevelNames

\* C19: when the arguments are rejected, or the logger setup fails, the pass
\* exits with code 1 without having issued any command; otherwise parsing
\* succeeds, and arguments that are no options change nothing.
Thm_C19 ==
    /\ [](pc \in {"parse_args", "init_logger"} => cmds = <<>>)
    /\ []((Exited /\ stderr # <<>> /\ stderr[1] \in {"Usage", "LogLevel", "Logger"})
           => (cmds = <<>> /\ exit_status = <<1>>))
    /\ [][pc = "parse_args"
           => /\ IF ArgsRejected(args)
                 THEN pc' = "exited" /\ exit_status' = <<1>> /\ cmds' = <<>>
                 ELSE pc' = "init_logger" /\ exit_status' = <<>>
              /\ (\A i \in 1..Len(args) : args[i] \notin ValueOptions)
                 => global_args' = DefaultArgs]_vars
    /\ [][pc = "init_logger"
           => \/ pc' = "query1" /\ exit_status' = <<>>
              \/ pc' = "exited" /\ exit_status' = <<1>> /\ cmds' = <<>>
                   /\ stderr' = <<"Logger">>]_vars

Wit_C19 ==
    /\ Exited /\ stderr = <<"LogLevel">> /\ cmds = <<>> /\ exit_status = <<1>>

----------------------------------------------------------------------------
FleetIs(c, p) ==
    /\ fleet # NoFleet
    /\ \A i \in 1..Len(fleet) : fleet[i].current = c /\ fleet[i].pending = p

ProfileApplied ==
    \E i \in 1..Len(cmds) : cmds[i] = Ok(SetMigProfileCmd)

\* C12 as stated: a fleet that starts Disabled/Disabled eventually is
\* Enabled/Enabled with the partition profile applied.
Orig_C12 ==
    FleetIs(<<"Disabled">>, <<"Disabled">>)
    => <>(FleetIs(<<"Enabled">>, <<"Enabled">>) /\ ProfileApplied)

StablyEnabled == FleetIs(<<"Enabled">>, <<"Enabled">>)

\* C14 as stated: every pass over a stably Enabled fleet issues exactly the
\* query and then the profile command.
Orig_C14 ==
    (StablyEnabled /\ Exited) => Issued = ProfileSequence

\* C14 (amended): over a stably Enabled fleet every pass in which the query
\* succeeds issues exactly the query and then the profile command; no pass
\* issues the enable-MIG command or a reboot request; the fleet stays
\* Enabled/Enabled through every step, the start of the next pass included.
Thm_C14 ==
    /\ [](StablyEnabled
          => /\ IsPrefix(Issued, ProfileSequence)
             /\ (Exited /\ FirstQueryOk) => Issued = ProfileSequence
             /\ Analyzed => (is_mig_capable = <<TRUE>> /\ overall_mig_mode = Enabled))
    /\ [][StablyEnabled => StablyEnabled']_vars

\* a pass over an Enabled fleet of two GPUs has applied the profile
Wit_C14 ==
    /\ StablyEnabled /\ Exited /\ Len(fleet) = 2
    /\ cmds = <<Ok(QueryCmd), Ok(SetMigProfileCmd)>> /\ exit_status = <<0>>

=============================================================================
